---------------------------- MODULE Spec2Model ----------------------------
(***************************************************************************)
(* Model of the response orchestration of EmotionScore-ai: the response    *)
(* cache and the rate limiter (server/elevenlabs.ts, the cache section),   *)
(* the API key rotation manager and generateOptimizedResponse with the     *)
(* route handlers that call it (routes.ts, src/unnamed/part_008).          *)
(*                                                                         *)
(* Texts are sequences of one-character strings so that normalisation is   *)
(* computed as the code computes it. Time is a tick counter; Date.now()    *)
(* reads it.                                                               *)
(***************************************************************************)
EXTENDS Integers, Sequences, FiniteSets, TLC

\* ------------------------------------------------------------------ bounds
MaxTime == 2          \* ticks the clock may advance
Ttl == 2              \* ResponseCache.ttl, in ticks
Capacity == 3         \* ResponseCache.capacity
WindowMs == 1         \* RateLimiter.windowMs, in ticks
MaxRequests == 1      \* RateLimiter.maxRequests

Identities == {"u1", "u2"}   \* users, each with one chat

\* ------------------------------------------------------------------- texts
Texts == { <<"a">>, <<" ", "A">>, <<"b">>, <<"a", " ", "b">>, <<"B", " ", "\t", "a">> }
Responses == {"r1", "r2"}
VadScores == {"v1"}

\* texts of three to five words, for the similarity lookup
SimTexts ==
  { <<"a", " ", "b", " ", "c">>,
    <<"a", " ", "b", " ", "c", " ", "d">>,
    <<"d", " ", "c", " ", "b", " ", "a">>,
    <<"a", " ", "b", " ", "c", " ", "d", " ", "e">> }

IsSpace(ch) == ch \in {" ", "\t"}

LowerChar(ch) == CASE ch = "A" -> "a" [] ch = "B" -> "b" [] OTHER -> ch

ToLowerCase(s) == [i \in 1..Len(s) |-> LowerChar(s[i])]

RECURSIVE TrimStart(_)
TrimStart(s) == IF s # <<>> /\ IsSpace(Head(s)) THEN TrimStart(Tail(s)) ELSE s

RECURSIVE TrimEnd(_)
TrimEnd(s) ==
  IF s # <<>> /\ IsSpace(s[Len(s)]) THEN TrimEnd(SubSeq(s, 1, Len(s) - 1)) ELSE s

Trim(s) == TrimEnd(TrimStart(s))

\* replace(/\s+/g, ' '): every maximal run of whitespace becomes one blank
RECURSIVE CollapseWhitespace(_)
CollapseWhitespace(s) ==
  IF s = <<>> THEN <<>>
  ELSE IF IsSpace(Head(s))
       THEN <<" ">> \o CollapseWhitespace(TrimStart(s))
       ELSE <<Head(s)>> \o CollapseWhitespace(Tail(s))

\* toLowerCase().trim().replace(/\s+/g, ' ')
NormalizeText(input) == CollapseWhitespace(Trim(ToLowerCase(input)))

\* NormalizeText, computed once for each text the model feeds in
NormalForms == [t \in Texts \cup SimTexts |-> NormalizeText(t)]

normalizeInput(input) ==
  IF input \in DOMAIN NormalForms THEN NormalForms[input] ELSE NormalizeText(input)

hashInput(input) == normalizeInput(input)

\* String.split(' '): the pieces between blanks, empty pieces kept
RECURSIVE SplitBlank(_, _)
SplitBlank(s, cur) ==
  IF s = <<>> THEN <<cur>>
  ELSE IF Head(s) = " "
       THEN <<cur>> \o SplitBlank(Tail(s), <<>>)
       ELSE SplitBlank(Tail(s), Append(cur, Head(s)))

SplitWords(s) == LET ws == SplitBlank(s, <<>>) IN { ws[i] : i \in 1..Len(ws) }

AllKeys == { hashInput(t) : t \in Texts }

\* SplitWords, computed once for each key the model can produce
KeyWords == [k \in AllKeys \cup { hashInput(t) : t \in SimTexts } |-> SplitWords(k)]

WordSet(s) == IF s \in DOMAIN KeyWords THEN KeyWords[s] ELSE SplitWords(s)

\* --------------------------------------------------------------- variables
VARIABLES
  now,        \* Date.now()
  cache,      \* ResponseCache.cache: the Map's entries in insertion order
  requests,   \* RateLimiter.requests: identity key -> timestamps
  lastSet,    \* history: per key, the last set whose entry has not been removed since
  recency,    \* history: keys by time of last insert or read, oldest first
  callLog,    \* history: per identity key, the isRateLimited calls since reset
  modelPriority,      \* APIKeyManager.modelPriority
  currentModelIndex,  \* APIKeyManager.currentModelIndex
  keyUsage,           \* APIKeyManager.keyUsage
  messages,   \* storage: per chat, the roles of its messages in order
  rq,         \* per request: handler position, locals and history counters
  vadText,    \* the text handed to analyzeTextWithVAD
  vadResult,  \* what analyzeTextWithVAD returned for it: <<>> before the call
  imText,     \* the text handed to generateImitationResponse
  imScore,    \* the score handed to generateImitationResponse
  imReply,    \* what generateImitationResponse returned: <<>> before the call
  chatMessages,  \* storage.getMessages(chatId): the roles of a chat's messages
  handed,     \* the history startChat received in Strategy 1: <<>> before the call
  requestQueue,  \* the RequestQueue object, its callbacks and its promises
  resilientStorage,  \* the ResilientStorage object and its reconnection timer
  database,          \* the database: whether it can be reached, its messages
  fallbackMessages,  \* fallbackStorage.messages
  storageCalls       \* per storage call: its position, its result, history

cacheVars == <<cache, lastSet, recency>>
limiterVars == <<requests, callLog>>
managerVars == <<modelPriority, currentModelIndex, keyUsage>>
orchVars == <<managerVars, messages, rq>>
callVars == <<vadText, vadResult, imText, imScore, imReply, chatMessages, handed>>
storageVars == <<resilientStorage, database, fallbackMessages, storageCalls>>
libVars == <<requestQueue, storageVars>>
pureVars == <<callVars, libVars>>
vars == <<now, cacheVars, limiterVars, orchVars, pureVars>>

\* ------------------------------------------------------------ Map helpers
Keys(c) == [i \in 1..Len(c) |-> c[i].key]

KeySet(c) == { c[i].key : i \in 1..Len(c) }

IndexOfKey(c, k) ==
  IF k \in KeySet(c) THEN CHOOSE i \in 1..Len(c) : c[i].key = k ELSE 0

\* Map.set: an existing key keeps its position, a new key goes last
MapSet(c, e) ==
  LET i == IndexOfKey(c, e.key)
  IN IF i = 0 THEN Append(c, e) ELSE [c EXCEPT ![i] = e]

MapDelete(c, k) == SelectSeq(c, LAMBDA e : e.key # k)

\* ---------------------------------------------------------- ResponseCache
Expired(e, t) == t - e.timestamp >= Ttl

cleanup(c, t) == SelectSeq(c, LAMBDA e : ~Expired(e, t))

EvictOldest_OffByOne(c) ==
  IF Len(c) > Capacity
  THEN (IF Len(c) > 0 THEN MapDelete(c, c[1].key) ELSE c)
  ELSE c

EvictOldest(c) ==
  IF Len(c) >= Capacity
  THEN (IF Len(c) > 0 THEN MapDelete(c, c[1].key) ELSE c)
  ELSE c

CacheSet(c, input, response, vadScore, t) ==
  MapSet(EvictOldest(cleanup(c, t)),
         [key |-> hashInput(input), response |-> response,
          timestamp |-> t, vadScore |-> vadScore])

CacheGet_IgnoresTtl(c, input, t) ==
  LET key == hashInput(input)
      i == IndexOfKey(c, key)
  IN IF i # 0
     THEN [cache |-> MapSet(MapDelete(c, key), c[i]), entry |-> <<c[i]>>]
     ELSE [cache |-> c, entry |-> <<>>]

\* get: <<entry>> on a hit (the entry moves to the end), <<>> for undefined
CacheGet(c, input, t) ==
  LET key == hashInput(input)
      i == IndexOfKey(c, key)
  IN IF i # 0 /\ t - c[i].timestamp < Ttl
     THEN [cache |-> MapSet(MapDelete(c, key), c[i]), entry |-> <<c[i]>>]
     ELSE [cache |-> c, entry |-> <<>>]

\* Jaccard similarity of two word sets as a fraction <<numerator, denominator>>
Similarity(a, b) ==
  LET intersectionSize == Cardinality(a \cap b)
      unionSize == Cardinality(a) + Cardinality(b) - intersectionSize
  IN IF unionSize > 0 THEN <<intersectionSize, unionSize>> ELSE <<0, 1>>

FracGt_OrEqual(x, y) == x[1] * y[2] >= y[1] * x[2]

FracGt(x, y) == x[1] * y[2] > y[1] * x[2]

FracGeq(x, y) == x[1] * y[2] >= y[1] * x[2]

\* the loop of findSimilar from entry i on; best is <<score, <<entry>> or <<>> >>
RECURSIVE ScanSimilar(_, _, _, _, _, _)
ScanSimilar(c, i, inputWordsSet, threshold, t, best) ==
  IF i > Len(c) THEN best
  ELSE IF Expired(c[i], t)
       THEN ScanSimilar(c, i + 1, inputWordsSet, threshold, t, best)
       ELSE LET similarity == Similarity(inputWordsSet, WordSet(c[i].key))
            IN IF FracGt(similarity, best[1]) /\ FracGeq(similarity, threshold)
               THEN ScanSimilar(c, i + 1, inputWordsSet, threshold, t,
                                <<similarity, <<c[i]>> >>)
               ELSE ScanSimilar(c, i + 1, inputWordsSet, threshold, t, best)

findSimilar(c, input, threshold, t) ==
  ScanSimilar(c, 1, WordSet(normalizeInput(input)), threshold, t,
              << <<0, 1>>, <<>> >>)[2]

AfterFindSimilar_MovesToEnd(c, found) ==
  IF found # <<>> THEN MapSet(MapDelete(c, found[1].key), found[1]) ELSE c

\* the Map after findSimilar returned found: findSimilar only reads it (get,
\* by contrast, deletes and re-inserts the entry it returns)
AfterFindSimilar(c, found) == c

\* ------------------------------------------------------------ RateLimiter
Has(m, k) == k \in DOMAIN m

MapPut(m, k, v) == [x \in DOMAIN m \cup {k} |-> IF x = k THEN v ELSE m[x]]

MapRemove(m, k) == [x \in DOMAIN m \ {k} |-> m[x]]

isRateLimited_OffByOne(m, key, t) ==
  IF ~Has(m, key)
  THEN [requests |-> MapPut(m, key, <<t>>), ret |-> FALSE]
  ELSE LET timestamps == SelectSeq(m[key], LAMBDA time : t - time < WindowMs)
       IN IF Len(timestamps) > MaxRequests
          THEN [requests |-> m, ret |-> TRUE]
          ELSE [requests |-> MapPut(m, key, Append(timestamps, t)), ret |-> FALSE]

isRateLimited_RecordsRejected(m, key, t) ==
  IF ~Has(m, key)
  THEN [requests |-> MapPut(m, key, <<t>>), ret |-> FALSE]
  ELSE LET timestamps == SelectSeq(m[key], LAMBDA time : t - time < WindowMs)
       IN [requests |-> MapPut(m, key, Append(timestamps, t)),
           ret |-> Len(timestamps) >= MaxRequests]

\* isRateLimited: the map afterwards and the value returned
isRateLimited(m, key, t) ==
  IF ~Has(m, key)
  THEN [requests |-> MapPut(m, key, <<t>>), ret |-> FALSE]
  ELSE LET timestamps == SelectSeq(m[key], LAMBDA time : t - time < WindowMs)
       IN IF Len(timestamps) >= MaxRequests
          THEN [requests |-> m, ret |-> TRUE]
          ELSE [requests |-> MapPut(m, key, Append(timestamps, t)), ret |-> FALSE]

reset(m, key) == MapRemove(m, key)

\* ------------------------------------------------- cache history variables
\* keys that are live in c at time t and missing from the cache after a set
Evicted(c, after, t) == KeySet(cleanup(c, t)) \ KeySet(after)

SetEvicted(c, input, t) == Evicted(c, CacheSet(c, input, "r1", "v1", t), t)

\* the least recently inserted-or-read live key at time t
LruKey(rec, c, t) ==
  LET live == SelectSeq(rec, LAMBDA k : k \in KeySet(cleanup(c, t)))
  IN IF live = <<>> THEN <<>> ELSE <<Head(live)>>

LastSetAfterSet(ls, after, key, response, t) ==
  LET kept == KeySet(after)
  IN [k \in AllKeys |->
        IF k = key THEN <<[response |-> response, at |-> t]>>
        ELSE IF k \notin kept THEN <<>>
        ELSE ls[k]]

Touch(rec, k) == Append(SelectSeq(rec, LAMBDA x : x # k), k)

RecencyAfterSet(rec, after, key) ==
  LET kept == KeySet(after)
  IN Touch(SelectSeq(rec, LAMBDA k : k \in kept), key)

\* ------------------------------------------------- ResponseCache operations
CacheSetOp(input, response, vadScore) ==
  LET after == CacheSet(cache, input, response, vadScore, now)
      key == hashInput(input)
  IN /\ cache' = after
     /\ lastSet' = LastSetAfterSet(lastSet, after, key, response, now)
     /\ recency' = RecencyAfterSet(recency, after, key)
     /\ UNCHANGED <<pureVars, now, limiterVars, orchVars>>

CacheGetOp(input) ==
  LET got == CacheGet(cache, input, now)
  IN /\ cache' = got.cache
     /\ recency' = IF got.entry # <<>> THEN Touch(recency, hashInput(input))
                   ELSE recency
     /\ UNCHANGED <<pureVars, now, lastSet, limiterVars, orchVars>>

CacheFindSimilarOp(input, threshold) ==
  /\ cache' = AfterFindSimilar(cache, findSimilar(cache, input, threshold, now))
  /\ UNCHANGED <<pureVars, now, lastSet, recency, limiterVars, orchVars>>

CacheClearOp ==
  /\ cache # <<>>
  /\ cache' = <<>>
  /\ lastSet' = [k \in AllKeys |-> <<>>]
  /\ recency' = <<>>
  /\ UNCHANGED <<pureVars, now, limiterVars, orchVars>>

Tick ==
  /\ now < MaxTime
  /\ now' = now + 1
  /\ UNCHANGED <<pureVars, cacheVars, limiterVars, orchVars>>

\* --------------------------------------------------- RateLimiter operations
UserKey(i) == <<"user", i>>

GuestKey(i) == <<"guest", i>>

LimiterKeys == { UserKey(i) : i \in Identities } \cup { GuestKey(i) : i \in Identities }

FreshLog == [count |-> 0, first |-> 0, last |-> 0]

LogCall(log, key, t) ==
  [log EXCEPT ![key] =
     [count |-> IF log[key].count > MaxRequests THEN log[key].count
                ELSE log[key].count + 1,
      first |-> IF log[key].count = 0 THEN t ELSE log[key].first,
      last |-> t]]

RateLimitCall(key) ==
  /\ requests' = isRateLimited(requests, key, now).requests
  /\ callLog' = LogCall(callLog, key, now)
  /\ UNCHANGED <<pureVars, now, cacheVars, orchVars>>

RateLimitReset(key) ==
  /\ Has(requests, key)
  /\ requests' = reset(requests, key)
  /\ callLog' = [callLog EXCEPT ![key] = FreshLog]
  /\ UNCHANGED <<pureVars, now, cacheVars, orchVars>>

\* ---------------------------------------------------------- APIKeyManager
\* initialize(): GEMINI_2_API_KEY puts gemini-2.0-flash first (unshift),
\* GEMINI_API_KEY puts gemini-1.5-flash last (push); either key may be unset
Configurations ==
  { <<>>, <<"gemini-2.0-flash">>, <<"gemini-1.5-flash">>,
    <<"gemini-2.0-flash", "gemini-1.5-flash">> }

ModelNames(mp) == { mp[i] : i \in 1..Len(mp) }

getCurrentModel_CountsFirst(mp, index, usage) ==
  IF Len(mp) = 0 THEN [model |-> "null", keyUsage |-> usage]
  ELSE [model |-> mp[index + 1],
        keyUsage |-> [usage EXCEPT ![mp[1]] = usage[mp[1]] + 1]]

\* getCurrentModel: the model returned and the usage counters afterwards
getCurrentModel(mp, index, usage) ==
  IF Len(mp) = 0 THEN [model |-> "null", keyUsage |-> usage]
  ELSE LET modelName == mp[index + 1]
       IN [model |-> modelName,
           keyUsage |-> [usage EXCEPT ![modelName] = usage[modelName] + 1]]

NextIndex_Stuck(mp, index) == index

NextIndex(mp, index) == (index + 1) % Len(mp)

\* rotateToNextModel: the new index, the model returned, the usage counters
rotateToNextModel(mp, index, usage) ==
  IF Len(mp) = 0 THEN [index |-> index, model |-> "null", keyUsage |-> usage]
  ELSE LET moved == NextIndex(mp, index)
           sel == getCurrentModel(mp, moved, usage)
       IN [index |-> moved, model |-> sel.model, keyUsage |-> sel.keyUsage]

\* isApiAvailable(), read once at start-up into isAPIAvailable
isAPIAvailable == Len(modelPriority) > 0

\* MAX_ROTATION_ATTEMPTS = modelPriority.length || 1
MAX_ROTATION_ATTEMPTS == IF Len(modelPriority) = 0 THEN 1 ELSE Len(modelPriority)

\* ------------------------------------------------ generateOptimizedResponse
Min(a, b) == IF a < b THEN a ELSE b

\* the "perfectly alternating" history built from the chat's messages
RECURSIVE AlternatingPairs(_, _, _)
AlternatingPairs(i, pairs, users) ==
  IF i >= pairs THEN <<>>
  ELSE <<"model">> \o (IF i + 1 < users THEN <<"user">> ELSE <<>>)
       \o AlternatingPairs(i + 1, pairs, users)

formattedHistory(chatHistory) ==
  LET userMsgs == SelectSeq(chatHistory, LAMBDA role : role = "user")
      assistantMsgs == SelectSeq(chatHistory, LAMBDA role : role = "assistant")
  IN IF Len(userMsgs) > 0
     THEN <<"user">> \o AlternatingPairs(0, Min(Len(assistantMsgs), Len(userMsgs) - 1),
                                         Len(userMsgs))
     ELSE <<>>

\* Strategy 1 is tried only with a "properly formatted" history
FirstTier(history) ==
  IF Len(history) >= 2 /\ history[1] = "user" THEN "tier1" ELSE "tier2"

StaticText == "I'm experiencing technical difficulties. Please try again in a moment."

FallbackText == "imitation response"

\* what a provider answers when it answers: a reply generated from the
\* conversation of the user it is generated for
ProviderReply(user) == IF user = "u1" THEN "r1" ELSE "r2"

\* ----------------------------------------------------------- route handlers
Endpoints == {"guest", "chat", "checkin", "feedback"}

OrchTexts == { <<"a">>, <<"a", " ", "b">>, <<"B", " ", "\t", "a">> }

NumRequestSlots == 2  \* requests the model lets arrive

Reqs == 1..NumRequestSlots

IdleReq ==
  [pc |-> "idle", endpoint |-> "none", user |-> "none", text |-> <<>>,
   vadScore |-> "v1", at |-> 0, history |-> <<>>, currentModel |-> "null",
   attemptCount |-> 0, reply |-> "", outcome |-> "none", served |-> "none",
   attempts |-> <<>>, calls |-> 0, writes |-> 0, stored |-> 0, selections |-> 0,
   tierLog |-> <<>>]

\* the rate limiter key of a request: `guest-${guestId}` or userId.toString()
LimiterKey(endpoint, user) == IF endpoint = "guest" THEN GuestKey(user) ELSE UserKey(user)

\* the guest and chat message routes check the rate limit first
FirstStep(endpoint) == IF endpoint \in {"guest", "chat"} THEN "rateCheck" ELSE "lookup"

AfterRateCheck_NoReturn(limited) == "lookup"

\* a limited request is answered 429 at once
AfterRateCheck(limited) == IF limited THEN "done" ELSE "lookup"

\* the routes that catch a failed generation and answer with the fallback
HasFallback(endpoint) == endpoint \in {"guest", "chat"}

Receive(r, endpoint, user, text) ==
  /\ rq[r].pc = "idle"
  /\ \A q \in Reqs : q < r => rq[q].pc # "idle"
  /\ rq' = [rq EXCEPT ![r] = [IdleReq EXCEPT !.pc = FirstStep(endpoint),
                                            !.endpoint = endpoint,
                                            !.user = user, !.text = text]]
  /\ UNCHANGED <<pureVars, now, cacheVars, limiterVars, managerVars, messages>>

RateCheck(r) ==
  LET key == LimiterKey(rq[r].endpoint, rq[r].user)
      res == isRateLimited(requests, key, now)
  IN /\ rq[r].pc = "rateCheck"
     /\ requests' = res.requests
     /\ callLog' = LogCall(callLog, key, now)
     /\ rq' = [rq EXCEPT ![r].pc = AfterRateCheck(res.ret),
                         ![r].outcome = IF res.ret THEN "RateLimited" ELSE "none"]
     /\ UNCHANGED <<pureVars, now, cacheVars, managerVars, messages>>

AfterLookup_Generates(hit) == "history"

\* a cache hit returns the cached response at once
AfterLookup(hit) == IF hit THEN "saveReply" ELSE "history"

\* the user message is stored (not by the feedback route), then
\* generateOptimizedResponse looks the trimmed input up in the cache
Lookup(r) ==
  LET userInput == Trim(rq[r].text)
      saves == rq[r].endpoint # "feedback"
      got == CacheGet(cache, userInput, now)
      similarResponse == findSimilar(cache, userInput, <<4, 5>>, now)
  IN /\ rq[r].pc = "lookup"
     /\ messages' = IF saves
                    THEN [messages EXCEPT ![rq[r].user] = Append(@, "user")]
                    ELSE messages
     /\ cache' = IF got.entry # <<>> THEN got.cache
                 ELSE AfterFindSimilar(got.cache, similarResponse)
     /\ recency' = IF got.entry # <<>> THEN Touch(recency, hashInput(userInput))
                   ELSE recency
     /\ rq' = [rq EXCEPT
          ![r].at = now,
          ![r].stored = IF saves THEN @ + 1 ELSE @,
          ![r].pc = AfterLookup(got.entry # <<>> \/ similarResponse # <<>>),
          ![r].reply = IF got.entry # <<>> THEN got.entry[1].response
                       ELSE IF similarResponse # <<>> THEN similarResponse[1].response
                       ELSE "",
          ![r].served = IF got.entry # <<>> THEN "cache-exact"
                        ELSE IF similarResponse # <<>> THEN "cache-similar"
                        ELSE "none"]
     /\ UNCHANGED <<pureVars, now, lastSet, limiterVars, managerVars>>

\* one generation call: the n-th pass of the rotation loop, the model called,
\* the strategy used and how the call ended
Call(n, model, tier) == [attempt |-> n, model |-> model, tier |-> tier, outcome |-> "pending"]

\* the pending call of a request returns or throws
Settled(log, outcome) == [log EXCEPT ![Len(log)].outcome = outcome]

\* after getChat and getMessages: without a provider the static text is
\* returned; otherwise the current model is selected and the first call made
History(r) ==
  LET history == formattedHistory(messages[rq[r].user])
      sel == getCurrentModel(modelPriority, currentModelIndex, keyUsage)
  IN /\ rq[r].pc = "history"
     /\ IF ~isAPIAvailable
        THEN /\ rq' = [rq EXCEPT ![r].pc = "saveReply", ![r].reply = StaticText,
                                 ![r].served = "static", ![r].history = history]
             /\ UNCHANGED keyUsage
        ELSE /\ keyUsage' = sel.keyUsage
             /\ rq' = [rq EXCEPT ![r].pc = FirstTier(history),
                                 ![r].history = history,
                                 ![r].currentModel = sel.model,
                                 ![r].attemptCount = 1,
                                 ![r].attempts = <<sel.model>>,
                                 ![r].selections = 1,
                                 ![r].calls = 1,
                                 ![r].tierLog = <<Call(1, sel.model, FirstTier(history))>>]
     /\ UNCHANGED <<pureVars, now, cacheVars, limiterVars, modelPriority, currentModelIndex,
                    messages>>

Tiers == {"tier1", "tier2", "tier3"}

\* the pending generation call returns text: cache it and return it
ProviderSucceeds(r) ==
  LET response == ProviderReply(rq[r].user)
      userInput == Trim(rq[r].text)
      after == CacheSet(cache, userInput, response, rq[r].vadScore, now)
  IN /\ rq[r].pc \in Tiers
     /\ cache' = after
     /\ lastSet' = LastSetAfterSet(lastSet, after, hashInput(userInput), response, now)
     /\ recency' = RecencyAfterSet(recency, after, hashInput(userInput))
     /\ rq' = [rq EXCEPT ![r].pc = "saveReply", ![r].reply = response,
                         ![r].served = "provider", ![r].writes = @ + 1,
                         ![r].tierLog = Settled(@, "ok")]
     /\ UNCHANGED <<pureVars, now, limiterVars, managerVars, messages>>

\* Strategy 1 or 2 throws: the next strategy calls the same model
TierFails(r) ==
  /\ rq[r].pc \in {"tier1", "tier2"}
  /\ rq' = [rq EXCEPT ![r].pc = IF rq[r].pc = "tier1" THEN "tier2" ELSE "tier3",
                      ![r].calls = @ + 1,
                      ![r].tierLog =
                        Append(Settled(@, "failed"),
                               Call(rq[r].attemptCount, rq[r].currentModel,
                                    IF rq[r].pc = "tier1" THEN "tier2" ELSE "tier3"))]
  /\ UNCHANGED <<pureVars, now, cacheVars, limiterVars, managerVars, messages>>

\* Strategy 3 throws with attempts left: rotate and run the loop again
RotateAndRetry(r) ==
  LET rot == rotateToNextModel(modelPriority, currentModelIndex, keyUsage)
  IN /\ rq[r].pc = "tier3"
     /\ rq[r].attemptCount < MAX_ROTATION_ATTEMPTS
     /\ currentModelIndex' = rot.index
     /\ keyUsage' = rot.keyUsage
     /\ rq' = [rq EXCEPT ![r].pc = FirstTier(rq[r].history),
                         ![r].currentModel = rot.model,
                         ![r].attemptCount = @ + 1,
                         ![r].attempts = Append(@, rot.model),
                         ![r].selections = @ + 1,
                         ![r].calls = @ + 1,
                         ![r].tierLog =
                           Append(Settled(@, "failed"),
                                  Call(rq[r].attemptCount + 1, rot.model,
                                       FirstTier(rq[r].history)))]
     /\ UNCHANGED <<pureVars, now, cacheVars, limiterVars, modelPriority, messages>>

\* Strategy 3 throws on the last attempt: "All API models exhausted" is thrown
Exhausted(r) ==
  /\ rq[r].pc = "tier3"
  /\ ~(rq[r].attemptCount < MAX_ROTATION_ATTEMPTS)
  /\ rq' = [rq EXCEPT ![r].pc = "caught", ![r].tierLog = Settled(@, "failed")]
  /\ UNCHANGED <<pureVars, now, cacheVars, limiterVars, managerVars, messages>>

\* the message routes catch the error and answer with the imitation response
Fallback(r) ==
  /\ rq[r].pc = "caught"
  /\ HasFallback(rq[r].endpoint)
  /\ messages' = [messages EXCEPT ![rq[r].user] = Append(@, "assistant")]
  /\ rq' = [rq EXCEPT ![r].pc = "done", ![r].reply = FallbackText,
                      ![r].served = "fallback", ![r].outcome = "ok",
                      ![r].stored = @ + 1]
  /\ UNCHANGED <<pureVars, now, cacheVars, limiterVars, managerVars>>

\* the check-in and feedback routes catch the error and answer 500
Failed(r) ==
  /\ rq[r].pc = "caught"
  /\ ~HasFallback(rq[r].endpoint)
  /\ rq' = [rq EXCEPT ![r].pc = "done", ![r].outcome = "error500"]
  /\ UNCHANGED <<pureVars, now, cacheVars, limiterVars, managerVars, messages>>

\* the reply is stored as the assistant's message and sent
SaveReply(r) ==
  /\ rq[r].pc = "saveReply"
  /\ messages' = [messages EXCEPT ![rq[r].user] = Append(@, "assistant")]
  /\ rq' = [rq EXCEPT ![r].pc = "done", ![r].outcome = "ok", ![r].stored = @ + 1]
  /\ UNCHANGED <<pureVars, now, cacheVars, limiterVars, managerVars>>

Step(r) ==
  \/ RateCheck(r)
  \/ Lookup(r)
  \/ History(r)
  \/ ProviderSucceeds(r)
  \/ TierFails(r)
  \/ RotateAndRetry(r)
  \/ Exhausted(r)
  \/ Fallback(r)
  \/ Failed(r)
  \/ SaveReply(r)

\* ============================================================== vad-model
\* Numbers are exact rationals. Sums and weights are integers in units of
\* 1/7500, which holds every product the code forms (tenths by tenths, thirds
\* of them, and the 0.8 * 0.7 of a negated valence); a score is a pair
\* <<numerator, denominator>>. The program computes in doubles, so where a
\* quotient lies exactly on a threshold of determineEmotion its comparison
\* can fall on the other side.
MaxWords == 3

\* a text is its words in order, each with the punctuation typed after it,
\* and whether its letters are typed in upper case
Token(w, t) == [word |-> w, tail |-> t]

VadTokens ==
  { Token(w, t) :
      w \in {"not", "happy", "sad", "ecstatic", "very", "<3", "sick", "ok"},
      t \in { <<>>, <<".">>, <<"?">>, <<"!", "!", "!">>, <<".", ".", ".">> } }

\* "I'm sick of everything today"
ScenarioA ==
  [caps |-> FALSE,
   tokens |-> << Token("i'm", <<>>), Token("sick", <<>>), Token("of", <<>>),
                 Token("everything", <<>>), Token("today", <<>>) >>]

VadTexts ==
  { [caps |-> c, tokens |-> s] :
      c \in BOOLEAN, s \in UNION { [1..n -> VadTokens] : n \in 0..MaxWords } }
  \cup {ScenarioA}

Abs(x) == IF x < 0 THEN -x ELSE x

Max(a, b) == IF a > b THEN a ELSE b

RECURSIVE GCD(_, _)
GCD(a, b) == IF b = 0 THEN a ELSE GCD(b, a % b)

\* x hundredths in units of 1/7500
Hundredths(x) == 75 * x

\* n consecutive ch in a word's punctuation
HasRun(tail, ch, n) ==
  \E i \in 1..Len(tail) :
    /\ i + n - 1 <= Len(tail)
    /\ \A j \in i..(i + n - 1) : tail[j] = ch

\* occurrences of the character ch in words i..end
RECURSIVE CountInText(_, _, _)
CountInText(tokens, ch, i) ==
  IF i > Len(tokens) THEN 0
  ELSE Cardinality({ j \in 1..Len(tokens[i].tail) : tokens[i].tail[j] = ch })
       + CountInText(tokens, ch, i + 1)

\* text.length, with one space between words
RECURSIVE TextLength(_, _)
TextLength(tokens, i) ==
  IF i > Len(tokens) THEN 0
  ELSE Len(tokens[i].word) + Len(tokens[i].tail) + (IF i > 1 THEN 1 ELSE 0)
       + TextLength(tokens, i + 1)

\* the catalogue, in tenths, in the order of the object literal
emotionMap ==
  << [name |-> "joy", vRange |-> <<3, 10>>, aRange |-> <<3, 10>>, dRange |-> <<0, 10>>, weight |-> 10],
     [name |-> "excitement", vRange |-> <<3, 10>>, aRange |-> <<6, 10>>, dRange |-> <<4, 10>>, weight |-> 9],
     [name |-> "contentment", vRange |-> <<3, 10>>, aRange |-> <<-3, 3>>, dRange |-> <<0, 10>>, weight |-> 8],
     [name |-> "anger", vRange |-> <<-10, -3>>, aRange |-> <<3, 10>>, dRange |-> <<4, 10>>, weight |-> 10],
     [name |-> "fear", vRange |-> <<-10, -3>>, aRange |-> <<3, 10>>, dRange |-> <<-10, -3>>, weight |-> 9],
     [name |-> "sadness", vRange |-> <<-10, -3>>, aRange |-> <<-10, -1>>, dRange |-> <<-10, 0>>, weight |-> 10],
     [name |-> "disgust", vRange |-> <<-10, -5>>, aRange |-> <<0, 5>>, dRange |-> <<0, 5>>, weight |-> 8],
     [name |-> "surprise", vRange |-> <<-3, 3>>, aRange |-> <<5, 10>>, dRange |-> <<-3, 3>>, weight |-> 8],
     [name |-> "anxiety", vRange |-> <<-5, -1>>, aRange |-> <<3, 8>>, dRange |-> <<-5, 0>>, weight |-> 8],
     [name |-> "boredom", vRange |-> <<-4, 0>>, aRange |-> <<-8, -3>>, dRange |-> <<-3, 3>>, weight |-> 7],
     [name |-> "calm", vRange |-> <<1, 5>>, aRange |-> <<-8, -3>>, dRange |-> <<0, 5>>, weight |-> 8],
     [name |-> "confusion", vRange |-> <<-3, 1>>, aRange |-> <<0, 5>>, dRange |-> <<-5, 0>>, weight |-> 7],
     [name |-> "contemplation", vRange |-> <<-1, 3>>, aRange |-> <<-5, 1>>, dRange |-> <<0, 5>>, weight |-> 7],
     [name |-> "curiosity", vRange |-> <<1, 5>>, aRange |-> <<1, 5>>, dRange |-> <<1, 5>>, weight |-> 7],
     [name |-> "empathy", vRange |-> <<-1, 3>>, aRange |-> <<-1, 3>>, dRange |-> <<-1, 3>>, weight |-> 7],
     [name |-> "frustration", vRange |-> <<-7, -3>>, aRange |-> <<3, 7>>, dRange |-> <<-3, 5>>, weight |-> 8],
     [name |-> "gratitude", vRange |-> <<5, 9>>, aRange |-> <<0, 4>>, dRange |-> <<0, 5>>, weight |-> 8],
     [name |-> "hope", vRange |-> <<3, 8>>, aRange |-> <<1, 5>>, dRange |-> <<1, 6>>, weight |-> 7],
     [name |-> "interest", vRange |-> <<2, 7>>, aRange |-> <<2, 7>>, dRange |-> <<0, 5>>, weight |-> 7],
     [name |-> "pride", vRange |-> <<5, 9>>, aRange |-> <<3, 7>>, dRange |-> <<5, 10>>, weight |-> 8],
     [name |-> "regret", vRange |-> <<-7, -3>>, aRange |-> <<-3, 2>>, dRange |-> <<-6, -1>>, weight |-> 7],
     [name |-> "shame", vRange |-> <<-8, -4>>, aRange |-> <<-2, 3>>, dRange |-> <<-9, -4>>, weight |-> 8] >>

\* the patterns that match a word or a punctuation of the vocabulary, in
\* tenths: words is what the regular expression matches between word
\* boundaries, run the repeated character it matches. No other pattern of the
\* table matches any text above.
emotionalPatterns ==
  << [pattern |-> "ecstat(ic|ically)", words |-> {"ecstatic", "ecstatically"}, run |-> <<>>,
      valence |-> 10, arousal |-> 10, dominance |-> 7, weight |-> 10],
     [pattern |-> "happ(y|iness|ily)", words |-> {"happy", "happiness", "happily"}, run |-> <<>>,
      valence |-> 8, arousal |-> 6, dominance |-> 6, weight |-> 9],
     [pattern |-> "sad(ly|ness)?", words |-> {"sad", "sadly", "sadness"}, run |-> <<>>,
      valence |-> -7, arousal |-> -4, dominance |-> -4, weight |-> 9],
     [pattern |-> "not", words |-> {"not"}, run |-> <<>>,
      valence |-> -10, arousal |-> 1, dominance |-> 1, weight |-> 2],
     [pattern |-> "very", words |-> {"very"}, run |-> <<>>,
      valence |-> 2, arousal |-> 2, dominance |-> 1, weight |-> 2],
     [pattern |-> "!!+", words |-> {}, run |-> <<"!", 2>>,
      valence |-> 3, arousal |-> 8, dominance |-> 4, weight |-> 7],
     [pattern |-> "??+", words |-> {}, run |-> <<"?", 2>>,
      valence |-> -1, arousal |-> 6, dominance |-> -3, weight |-> 6],
     [pattern |-> "...", words |-> {}, run |-> <<".", 3>>,
      valence |-> -2, arousal |-> -3, dominance |-> -2, weight |-> 4] >>

negations ==
  { "not", "no", "never", "neither", "nor", "nothing", "nobody", "nowhere",
    "don't", "doesn't", "didn't", "won't", "wouldn't", "can't", "cannot",
    "couldn't", "shouldn't", "isn't", "aren't", "wasn't", "weren't" }

\* the entry of the emoji table that the vocabulary can spell
emojiMap ==
  << [emoji |-> "<3", valence |-> 9, arousal |-> 6, dominance |-> 5, weight |-> 8] >>

\* originalText.length > 3, all upper case, and at least one letter
isAllCaps(text) ==
  /\ TextLength(text.tokens, 1) > 3
  /\ text.caps
  /\ \E i \in 1..Len(text.tokens) : text.tokens[i].word # "<3"

\* the first pass: the flag as it stands after words i..end. A word is
\* compared after one trailing punctuation mark has been removed from it.
RECURSIVE NegationPass(_, _, _)
NegationPass(tokens, i, active) ==
  IF i > Len(tokens) THEN active
  ELSE LET tail == tokens[i].tail
           isNegation == tokens[i].word \in negations /\ Len(tail) <= 1
           endsSentence == Len(tail) >= 2 /\ tail[Len(tail) - 1] \in {".", "!", "?"}
       IN IF isNegation THEN NegationPass(tokens, i + 1, TRUE)
          ELSE IF endsSentence THEN NegationPass(tokens, i + 1, FALSE)
          ELSE NegationPass(tokens, i + 1, active)

negationActive(tokens) == NegationPass(tokens, 1, FALSE)

\* text.match(regex)
Matches(p, tokens) ==
  \/ \E i \in 1..Len(tokens) : tokens[i].word \in p.words
  \/ /\ p.run # <<>>
     /\ \E i \in 1..Len(tokens) : HasRun(tokens[i].tail, p.run[1], p.run[2])

\* the valence a matched pattern adds, in thousandths, before its weight
valenceAdjustment(p, active) ==
  IF active /\ p.pattern # "not"
  THEN IF -(80 * p.valence) < 0 THEN -(56 * p.valence) ELSE -(80 * p.valence)
  ELSE 100 * p.valence

Sums(v, a, d, w) == [valence |-> v, arousal |-> a, dominance |-> d, weight |-> w]

Plus(s, t) ==
  Sums(s.valence + t.valence, s.arousal + t.arousal,
       s.dominance + t.dominance, s.weight + t.weight)

\* Math.min(count, 3) / 3 of the given hundredths
Intensity(count, hundredths) ==
  (Hundredths(hundredths) * (IF count < 3 THEN count ELSE 3)) \div 3

PunctuationSums(text) ==
  LET tokens == text.tokens
      exclamationCount == CountInText(tokens, "!", 1)
      questionCount == CountInText(tokens, "?", 1)
      caps == IF isAllCaps(text)
              THEN Sums(0, Hundredths(20), Hundredths(10), Hundredths(50))
              ELSE Sums(0, 0, 0, 0)
      excl == Sums(Intensity(exclamationCount, 14), Intensity(exclamationCount, 35),
                   Intensity(exclamationCount, 21), Intensity(exclamationCount, 70))
      quest == Sums(0, Intensity(questionCount, 18), -Intensity(questionCount, 12),
                    Intensity(questionCount, 60))
      ellipsis == IF \E i \in 1..Len(tokens) : HasRun(tokens[i].tail, ".", 3)
                  THEN Sums(-Hundredths(4), -Hundredths(12), -Hundredths(8), Hundredths(40))
                  ELSE Sums(0, 0, 0, 0)
  IN Plus(Plus(caps, excl), Plus(quest, ellipsis))

RECURSIVE EmojiSums(_, _)
EmojiSums(tokens, k) ==
  IF k > Len(emojiMap) THEN Sums(0, 0, 0, 0)
  ELSE LET e == emojiMap[k]
           rest == EmojiSums(tokens, k + 1)
       IN IF \E i \in 1..Len(tokens) : tokens[i].word = e.emoji
          THEN Plus(Sums(Hundredths(e.valence * e.weight), Hundredths(e.arousal * e.weight),
                         Hundredths(e.dominance * e.weight), Hundredths(10 * e.weight)), rest)
          ELSE rest

\* the second pass: every matching pattern, under the flag the first pass left
RECURSIVE PatternSums(_, _, _)
PatternSums(tokens, active, k) ==
  IF k > Len(emotionalPatterns) THEN Sums(0, 0, 0, 0)
  ELSE LET p == emotionalPatterns[k]
           rest == PatternSums(tokens, active, k + 1)
       IN IF Matches(p, tokens)
          THEN Plus(Sums((75 * valenceAdjustment(p, active) * p.weight) \div 100,
                         Hundredths(p.arousal * p.weight),
                         Hundredths(p.dominance * p.weight),
                         Hundredths(10 * p.weight)), rest)
          ELSE rest

\* the whole text is one of the phrases, followed by one of the tails
WholeTextIs(tokens, phrases, tails) ==
  /\ tokens # <<>>
  /\ [i \in 1..Len(tokens) |-> tokens[i].word] \in phrases
  /\ \A i \in 1..(Len(tokens) - 1) : tokens[i].tail = <<>>
  /\ tokens[Len(tokens)].tail \in tails

\* the default readings of very short texts
ShortTextSums(tokens, totalWeight) ==
  LET stop == { <<>>, <<".">>, <<"!">> }
  IN IF WholeTextIs(tokens, { <<"hi">>, <<"hey">>, <<"hello">>, <<"hi", "there">>,
                              <<"hey", "there">>, <<"hello", "there">> }, stop)
       THEN Sums(Hundredths(21), Hundredths(14), Hundredths(7), Hundredths(70))
     ELSE IF WholeTextIs(tokens, { <<"thanks">>, <<"thank", "you">>, <<"ty">> }, stop)
       THEN Sums(Hundredths(56), Hundredths(24), Hundredths(24), Hundredths(80))
     ELSE IF WholeTextIs(tokens, { <<"ok">>, <<"okay">>, <<"k">> }, stop)
       THEN Sums(Hundredths(5), -Hundredths(5), 0, Hundredths(50))
     ELSE IF WholeTextIs(tokens, { <<"yes">>, <<"yeah">>, <<"yep">>, <<"yup">> }, stop)
       THEN Sums(Hundredths(24), Hundredths(18), Hundredths(18), Hundredths(60))
     ELSE IF WholeTextIs(tokens, { <<"no">>, <<"nope">>, <<"nah">> }, stop)
       THEN Sums(-Hundredths(18), Hundredths(12), Hundredths(6), Hundredths(60))
     ELSE IF WholeTextIs(tokens, { <<"why">>, <<"what">>, <<"how">>, <<"when">>, <<"where">> },
                         { <<>>, <<"?">> })
       THEN Sums(0, Hundredths(15), -Hundredths(10), Hundredths(50))
     ELSE IF totalWeight < Hundredths(30)
       THEN Sums(Hundredths(4), Hundredths(8), 0, Hundredths(40))
     ELSE Sums(0, 0, 0, 0)

\* n/d compared with t tenths
Below(n, d, t) == 10 * n < t * d

Above(n, d, t) == 10 * n > t * d

\* adjustedScore of one emotion, times 100 * 2520 * d, or -1 below two
\* dimensions in range
AdjustedScore(e, v, a, dm, d) ==
  LET Within(n, range) == 10 * n >= range[1] * d /\ 10 * n <= range[2] * d
      \* 1 - min(1, distance from the centre / half the width), times 2520 d
      Closeness(n, range) ==
        Max(0, (range[2] - range[1]) * d - Abs(20 * n - (range[1] + range[2]) * d))
        * (2520 \div (range[2] - range[1]))
      dimensionsInRange ==
        (IF Within(v, e.vRange) THEN 1 ELSE 0) + (IF Within(a, e.aRange) THEN 1 ELSE 0)
        + (IF Within(dm, e.dRange) THEN 1 ELSE 0)
      weights ==
        IF e.name \in {"joy", "sadness", "contentment", "disgust"} THEN <<5, 3, 2>>
        ELSE IF e.name \in {"excitement", "calm", "boredom"} THEN <<3, 5, 2>>
        ELSE IF e.name \in {"anger", "fear", "pride", "shame"} THEN <<3, 3, 4>>
        ELSE <<4, 3, 3>>
      matchScore ==
        ( weights[1] * Closeness(v, e.vRange) + weights[2] * Closeness(a, e.aRange)
          + weights[3] * Closeness(dm, e.dRange) ) * e.weight
  IN IF dimensionsInRange >= 2
     THEN matchScore + (IF dimensionsInRange = 3 THEN 10 * 2520 * d ELSE 0)
     ELSE -1

\* the loop over the catalogue: <<bestScore, bestMatch>> after entries k..end
RECURSIVE BestMatch(_, _, _, _, _, _, _)
BestMatch(k, bestScore, bestMatch, v, a, dm, d) ==
  IF k > Len(emotionMap) THEN <<bestScore, bestMatch>>
  ELSE LET s == AdjustedScore(emotionMap[k], v, a, dm, d)
       IN IF s > bestScore
          THEN BestMatch(k + 1, s, emotionMap[k].name, v, a, dm, d)
          ELSE BestMatch(k + 1, bestScore, bestMatch, v, a, dm, d)

\* valence v/d, arousal a/d, dominance dm/d
determineEmotion(v, a, dm, d) ==
  IF Below(Abs(v), d, 2) /\ Below(Abs(a), d, 2) /\ Below(Abs(dm), d, 2) THEN "neutral"
  ELSE IF Above(v, d, 6) /\ Above(a, d, 6) THEN "excitement"
  ELSE IF Below(v, d, -6) /\ Above(a, d, 6) /\ Above(dm, d, 4) THEN "anger"
  ELSE IF Below(v, d, -6) /\ Above(a, d, 4) /\ Below(dm, d, -3) THEN "fear"
  ELSE IF Below(v, d, -5) /\ Below(a, d, -3) THEN "sadness"
  ELSE IF Above(v, d, 5) /\ Below(a, d, -3) THEN "calm"
  ELSE IF Below(Abs(v), d, 3) /\ Above(a, d, 3) /\ Below(dm, d, 0) THEN "confusion"
  ELSE IF Above(v, d, 3) /\ Below(Abs(a), d, 3) /\ Above(dm, d, 2) THEN "hope"
  ELSE IF Above(v, d, 2) /\ Above(a, d, 2) /\ Above(dm, d, 0) THEN "interest"
  ELSE LET g == GCD(GCD(Abs(v), Abs(a)), GCD(Abs(dm), d))
           best == BestMatch(1, 0, "neutral", v \div g, a \div g, dm \div g, d \div g)
       IN IF best[1] < 30 * 2520 * (d \div g)
          THEN IF Above(v, d, 2) THEN "interest"
               ELSE IF Below(v, d, -2) THEN "confusion"
               ELSE "neutral"
          ELSE best[2]

\* the score of a text; secondaryEmotion is left out
analyzeTextWithVAD(text) ==
  IF text.tokens = <<>>
  THEN [valence |-> <<0, 1>>, arousal |-> <<0, 1>>, dominance |-> <<0, 1>>,
        primaryEmotion |-> "empathy"]
  ELSE
    LET tokens == text.tokens
        wordCount == Len(tokens)
        matched == Plus(Plus(PunctuationSums(text), EmojiSums(tokens, 1)),
                        PatternSums(tokens, negationActive(tokens), 1))
        sums == IF matched.weight < Hundredths(50) /\ wordCount <= 3
                THEN Plus(matched, ShortTextSums(tokens, matched.weight))
                ELSE matched
        totalWeight == IF sums.weight <= 0 THEN Hundredths(100) ELSE sums.weight
        Clamp(n) == IF n > totalWeight THEN totalWeight
                    ELSE IF n < -totalWeight THEN -totalWeight ELSE n
        valence == Clamp(sums.valence)
        arousal == Clamp(sums.arousal)
        dominance == Clamp(sums.dominance)
        primaryEmotion == determineEmotion(valence, arousal, dominance, totalWeight)
        \* in units of 1/30000, a quarter of the weight's unit
        confidenceBase == Min(27000, Max(12000, totalWeight))
        confidence ==
          Min(28500,
              confidenceBase + (IF primaryEmotion # "neutral" THEN 3000 ELSE 0)
                + (IF wordCount > 5 THEN 1500 ELSE 0)
                + (IF Above(Abs(valence), totalWeight, 7) THEN 1500 ELSE 0))
    IN [valence |-> <<valence, totalWeight>>,
        arousal |-> <<arousal, totalWeight>>,
        dominance |-> <<dominance, totalWeight>>,
        primaryEmotion |-> primaryEmotion,
        confidence |-> <<confidence, 30000>>]

\* ------------------------------------------------------- vad-model call
Analyze ==
  /\ vadResult = <<>>
  /\ vadResult' = <<analyzeTextWithVAD(vadText)>>
  /\ UNCHANGED <<vadText, imText, imScore, imReply, chatMessages, handed, libVars, now,
                 cacheVars, limiterVars, orchVars>>

\* ================================================= enhanced-vad: fallback
\* A text is its words in order, in lower case; letter case and punctuation,
\* which the claims about the fallback do not depend on, are left out.
MaxUserWords == 2

\* STYLE_GUIDELINES.petNames, in the order the filter walks it
petNames ==
  << "honey", "darling", "sweetie", "dear", "love", "hun", "babe", "baby", "sweetheart" >>

\* the spelling of the pet names and of the words a user types
Letters ==
  "honey" :> <<"h", "o", "n", "e", "y">> @@
  "darling" :> <<"d", "a", "r", "l", "i", "n", "g">> @@
  "sweetie" :> <<"s", "w", "e", "e", "t", "i", "e">> @@
  "dear" :> <<"d", "e", "a", "r">> @@
  "love" :> <<"l", "o", "v", "e">> @@
  "hun" :> <<"h", "u", "n">> @@
  "babe" :> <<"b", "a", "b", "e">> @@
  "baby" :> <<"b", "a", "b", "y">> @@
  "sweetheart" :> <<"s", "w", "e", "e", "t", "h", "e", "a", "r", "t">> @@
  "tired" :> <<"t", "i", "r", "e", "d">> @@
  "hungry" :> <<"h", "u", "n", "g", "r", "y">> @@
  "bro" :> <<"b", "r", "o">> @@
  "sick" :> <<"s", "i", "c", "k">> @@
  "u" :> <<"u">> @@
  ":)" :> <<":", ")">>

UserTexts ==
  UNION { [1..n -> {"tired", "hungry", "love", "bro", "sick", "u", ":)"}] : n \in 0..MaxUserWords }

\* the scores that select different acknowledgments, valence in tenths
AffectScores == [valence : {-5, 0, 5}, primaryEmotion : {"sadness", "confusion", "interest"}]

\* the draws of Math.random() in one call
Draws ==
  [acknowledge : BOOLEAN, specific : BOOLEAN, transition : {0, 1},
   bro : BOOLEAN, emoji : BOOLEAN, casual : BOOLEAN]

\* String.includes: term is spelled inside one of the words of the text
includes(text, term) ==
  \E i \in 1..Len(text) :
    \E k \in 0..(Len(Letters[text[i]]) - Len(Letters[term])) :
      SubSeq(Letters[text[i]], k + 1, k + Len(Letters[term])) = Letters[term]

\* every template is cut to its first words. Of all templates only three
\* topic transitions hold a word of petNames ("I'd love to hear ..."). The
\* greeting and help shortcuts test for a literal backslash and so never
\* apply, and the vocabulary cannot spell "how are you".
generateResponse(text, vadScore, draw) ==
  LET acknowledgment ==
        IF ~draw.acknowledge THEN <<>>
        ELSE IF vadScore.valence > 3 THEN << "i'm", "picking", "up", "on", "the", "positive", "energy" >>
        ELSE IF vadScore.valence < -3 THEN << "i", "sense", "some", "emotional", "weight" >>
        ELSE << "thank", "you", "for", "sharing", "your", "thoughts" >>
      emotionSpecific ==
        IF ~draw.specific THEN <<>>
        ELSE IF vadScore.primaryEmotion = "confusion"
          THEN << "i", "notice", "you're", "navigating", "some", "complexity" >>
        ELSE IF vadScore.primaryEmotion \in {"interest", "curiosity"}
          THEN << "your", "curiosity", "about", "this", "subject", "is", "palpable" >>
        ELSE <<>>
      topic ==
        IF \E i \in 1..Len(text) : text[i] = "love"
        THEN << "human", "connections", "form", "the", "emotional", "architecture" >>
        ELSE << "human", "experience", "unfolds", "across", "so", "many", "dimensions" >>
      transition ==
        IF draw.transition = 0
        THEN << "i'm", "curious", "what", "aspects", "of", "this", "resonate" >>
        ELSE << "i'd", "love", "to", "hear", "more", "about", "your", "thoughts" >>
  IN acknowledgment \o emotionSpecific \o topic \o transition

\* the regular expression \bterm\b[,\s]* removes the word term
removePetNames(response, userText) ==
  LET terms == { petNames[k] : k \in 1..Len(petNames) }
      userUsesPetNames == \E k \in 1..Len(petNames) : includes(userText, petNames[k])
      Kept(w) == w \notin terms
  IN IF userUsesPetNames THEN response ELSE SelectSeq(response, Kept)

\* the features that change words; messageHistory is empty
analyzeTextStyle(text) ==
  LET Uses(ws) == \E i \in 1..Len(text) : text[i] \in ws
  IN [usesBro |-> Uses({"bro", "bruh", "dude", "man", "mate", "buddy", "pal", "fam"}),
      usesShorthand |->
        Uses({"lol", "lmao", "rofl", "omg", "wtf", "idk", "tbh", "imo", "imho", "btw",
              "afaik", "rn", "u", "ur", "r", "y", "n", "k", "pls", "thx"}),
      usesSlang |->
        Uses({"cool", "awesome", "lit", "fire", "dope", "sick", "wicked", "rad", "sweet",
              "chill", "vibe", "flex", "slay", "goals", "mood", "tea", "shade", "ghosted",
              "salty", "extra", "basic", "sus", "low-key", "high-key", "yeet", "bet", "cap"}),
      usesEmojis |-> Uses({":)", ":(", ":d", ":p", ";p", ";)", ";(", ":/", "<3"}),
      preferredEmojis |-> IF Uses({":)"}) THEN << ":)" >> ELSE << ":)", ":d", "<3", ";)", ":p" >>]

\* the steps that add or replace words: ", bro" after a sentence, the
\* shorthand map, an emoji at the very end, a slang phrase in front
applyUserStyle(originalResponse, userStyle, draw) ==
  LET shorthandMap ==
        ("you" :> "u") @@ ("your" :> "ur") @@ ("are" :> "r") @@ ("for" :> "4")
        @@ ("to" :> "2") @@ ("be" :> "b") @@ ("please" :> "pls") @@ ("thanks" :> "thx")
      withBro == IF userStyle.usesBro /\ draw.bro
                 THEN Append(originalResponse, "bro") ELSE originalResponse
      withShorthand ==
        IF userStyle.usesShorthand
        THEN [i \in 1..Len(withBro) |->
                IF withBro[i] \in DOMAIN shorthandMap THEN shorthandMap[withBro[i]]
                ELSE withBro[i]]
        ELSE withBro
      withEmoji == IF userStyle.usesEmojis /\ draw.emoji
                   THEN Append(withShorthand, userStyle.preferredEmojis[1]) ELSE withShorthand
  IN IF userStyle.usesSlang /\ draw.casual THEN << "tbh" >> \o withEmoji ELSE withEmoji

generateImitationResponse(text, vadScore, draw) ==
  LET regularResponse == generateResponse(text, vadScore, draw)
      filteredResponse == removePetNames(regularResponse, text)
      userStyle == analyzeTextStyle(text)
  IN applyUserStyle(filteredResponse, userStyle, draw)

\* ------------------------------------------ generateImitationResponse call
Imitate(draw) ==
  /\ imReply = <<>>
  /\ imReply' = <<generateImitationResponse(imText, imScore, draw)>>
  /\ UNCHANGED <<imText, imScore, vadText, vadResult, chatMessages, handed, libVars, now,
                 cacheVars, limiterVars, orchVars>>

\* ------------------------------------------------------ Strategy 1 history
\* formattedHistory.slice(-6)
RecentHistory(history) ==
  SubSeq(history, Max(1, Len(history) - 5), Len(history))

\* Strategy 1 of the first attempt: startChat({history: ...})
StartChat ==
  /\ handed = <<>>
  /\ FirstTier(formattedHistory(chatMessages)) = "tier1"
  /\ handed' = <<RecentHistory(formattedHistory(chatMessages))>>
  /\ UNCHANGED <<chatMessages, vadText, vadResult, imText, imScore, imReply, libVars, now,
                 cacheVars, limiterVars, orchVars>>

\* ------------------------------------------------------------ RequestQueue
\* A callback is an async function (() => Promise<string>): calling it starts
\* it and its promise settles in a later turn of the event loop. Jobs are
\* numbered in the order of their enqueue calls.
MaxJobs == 4  \* enqueue calls the model lets happen

Jobs == 1..MaxJobs

\* new RequestQueue(): queue and isProcessing are its fields; loops holds the
\* position of every call of processQueue that has not returned, jobs the
\* state of each callback and of the promise enqueue returned for it,
\* startOrder the jobs in the order their callbacks were called
EmptyQueue ==
  [queue |-> <<>>, isProcessing |-> FALSE,
   loops |-> [l \in Jobs |-> [pc |-> "off", job |-> 0]],
   jobs |-> [j \in Jobs |-> [callback |-> "none", promise |-> "none"]],
   startOrder |-> <<>>]

\* the while test of processQueue and, when it passes, shift() and the call
\* of the callback; when it fails, isProcessing = false and the call returns
WhileLoop(l, s) ==
  IF Len(s.queue) > 0
  THEN LET job == Head(s.queue)
       IN [s EXCEPT !.queue = Tail(s.queue),
                    !.loops[l] = [pc |-> "callback", job |-> job],
                    !.jobs[job].callback = "running",
                    !.startOrder = Append(@, job)]
  ELSE [s EXCEPT !.isProcessing = FALSE, !.loops[l] = [pc |-> "off", job |-> 0]]

\* processQueue() up to its first await
processQueue(s) ==
  LET l == CHOOSE x \in Jobs : s.loops[x].pc = "off" /\ \A y \in Jobs : y < x => s.loops[y].pc # "off"
  IN WhileLoop(l, [s EXCEPT !.isProcessing = TRUE])

enqueue_AlwaysStarts(s, j) ==
  processQueue([s EXCEPT !.queue = Append(@, j),
                         !.jobs[j] = [callback |-> "queued", promise |-> "pending"]])

\* enqueue(callback): the promise's executor pushes the item and starts the
\* loop when none is running
enqueue(s, j) ==
  LET pushed == [s EXCEPT !.queue = Append(@, j),
                          !.jobs[j] = [callback |-> "queued", promise |-> "pending"]]
  IN IF ~s.isProcessing THEN processQueue(pushed) ELSE pushed

Enqueue(j) ==
  /\ requestQueue.jobs[j].promise = "none"
  /\ \A i \in Jobs : i < j => requestQueue.jobs[i].promise # "none"
  /\ requestQueue' = enqueue(requestQueue, j)
  /\ UNCHANGED <<callVars, storageVars, now, cacheVars, limiterVars, orchVars>>

\* the promise a running callback returned settles: fulfilled or rejected
CallbackSettles(j, ok) ==
  /\ requestQueue.jobs[j].callback = "running"
  /\ requestQueue' = [requestQueue EXCEPT
                        !.jobs[j].callback = IF ok THEN "returned" ELSE "threw"]
  /\ UNCHANGED <<callVars, storageVars, now, cacheVars, limiterVars, orchVars>>

\* processQueue resumes after await callback(): resolve or reject, then the
\* delay when items are waiting, else the while test, which fails
Resume(l) ==
  LET job == requestQueue.loops[l].job
      settled == [requestQueue EXCEPT
                    !.jobs[job].promise =
                      IF requestQueue.jobs[job].callback = "returned"
                      THEN "resolved" ELSE "rejected"]
  IN /\ requestQueue.loops[l].pc = "callback"
     /\ requestQueue.jobs[job].callback \in {"returned", "threw"}
     /\ requestQueue' = IF Len(settled.queue) > 0
                        THEN [settled EXCEPT !.loops[l].pc = "delay"]
                        ELSE WhileLoop(l, settled)
     /\ UNCHANGED <<callVars, storageVars, now, cacheVars, limiterVars, orchVars>>

\* the setTimeout of processingDelay fires: back to the while test
DelayElapses(l) ==
  /\ requestQueue.loops[l].pc = "delay"
  /\ requestQueue' = WhileLoop(l, requestQueue)
  /\ UNCHANGED <<callVars, storageVars, now, cacheVars, limiterVars, orchVars>>

\* clear(): this.queue = []
Clear ==
  /\ requestQueue' = [requestQueue EXCEPT !.queue = <<>>]
  /\ UNCHANGED <<callVars, storageVars, now, cacheVars, limiterVars, orchVars>>

NextQueue ==
  \/ \E j \in Jobs : Enqueue(j)
  \/ \E j \in Jobs, ok \in BOOLEAN : CallbackSettles(j, ok)
  \/ \E l \in Jobs : Resume(l)
  \/ \E l \in Jobs : DelayElapses(l)
  \/ Clear

\* -------------------------------------------------------- ResilientStorage
\* One chat. A storage call is createMessage or getMessages; the message a
\* createMessage call stores is named by the call's number. A database
\* operation is pending from the call until it returns or throws; it throws
\* (an error, or the 5 s timeout of the race) when the database cannot be
\* reached. The in-memory operations of fallbackStorage cannot throw.
MaxCalls == 3  \* storage calls the model lets happen

Calls == 1..MaxCalls

\* new ResilientStorage(): usingFallback and _reconnectionScheduled are its
\* fields; timers counts the pending setTimeout callbacks, testing the
\* reconnection tests under way; degraded is history: a database operation
\* has failed and no reconnection test has succeeded since
FreshStorage ==
  [usingFallback |-> FALSE, reconnectionScheduled |-> FALSE,
   timers |-> 0, testing |-> 0, degraded |-> FALSE]

IdleCall ==
  [pc |-> "idle", kind |-> "none", via |-> "none", failed |-> FALSE,
   result |-> {}, mustSee |-> {}]

\* the messages whose createMessage call has returned
Created == { c \in Calls : storageCalls[c].kind = "createMessage" /\ storageCalls[c].pc = "done" }

\* fallbackStorage.createMessage and getMessages: the array afterwards and
\* the value returned
fallbackOperation(kind, c, msgs) ==
  IF kind = "createMessage"
  THEN [messages |-> msgs \cup {c}, result |-> {c}]
  ELSE [messages |-> msgs, result |-> msgs]

\* testDatabaseConnection: the try block evaluates sql`SELECT 1`, and sql is
\* not among the names the file imports from drizzle-orm, so the block
\* throws a ReferenceError before db.execute is called and the catch block
\* returns false; with sql bound the result would be whether the query ran
testDatabaseConnection(reachable) ==
  LET sqlBound == FALSE
  IN sqlBound /\ reachable

Caught_KeepsDatabase(s) ==
  IF ~s.reconnectionScheduled
  THEN [s EXCEPT !.degraded = TRUE, !.reconnectionScheduled = TRUE,
                 !.timers = @ + 1]
  ELSE [s EXCEPT !.degraded = TRUE]

\* the catch block of executeWithFallback up to the fallback operation
Caught(s) ==
  IF ~s.reconnectionScheduled
  THEN [s EXCEPT !.usingFallback = TRUE, !.degraded = TRUE,
                 !.reconnectionScheduled = TRUE, !.timers = @ + 1]
  ELSE [s EXCEPT !.usingFallback = TRUE, !.degraded = TRUE]

\* a storage call up to its first await: with usingFallback the fallback
\* operation runs, otherwise the database operation is started
StorageCall(c, kind) ==
  LET op == fallbackOperation(kind, c, fallbackMessages)
  IN /\ storageCalls[c].pc = "idle"
     /\ \A i \in Calls : i < c => storageCalls[i].pc # "idle"
     /\ IF resilientStorage.usingFallback
        THEN /\ fallbackMessages' = op.messages
             /\ storageCalls' = [storageCalls EXCEPT ![c] =
                   [IdleCall EXCEPT !.pc = "done", !.kind = kind, !.via = "fallback",
                                    !.result = op.result, !.mustSee = Created]]
        ELSE /\ fallbackMessages' = fallbackMessages
             /\ storageCalls' = [storageCalls EXCEPT ![c] =
                   [IdleCall EXCEPT !.pc = "db", !.kind = kind, !.mustSee = Created]]
     /\ UNCHANGED <<callVars, requestQueue, resilientStorage, database, now, cacheVars,
                    limiterVars, orchVars>>

\* the database operation returns before the timeout
DbReturns(c) ==
  LET kind == storageCalls[c].kind
      stored == IF kind = "createMessage" THEN database.messages \cup {c}
                ELSE database.messages
  IN /\ storageCalls[c].pc = "db"
     /\ database.up
     /\ database' = [database EXCEPT !.messages = stored]
     /\ storageCalls' = [storageCalls EXCEPT
           ![c].pc = "done", ![c].via = "db",
           ![c].result = IF kind = "createMessage" THEN {c} ELSE stored]
     /\ UNCHANGED <<callVars, requestQueue, resilientStorage, fallbackMessages, now,
                    cacheVars, limiterVars, orchVars>>

\* the database operation throws or the timeout wins the race: the catch
\* block runs and the call returns what the fallback operation returns; the
\* insert of createMessage may have reached the database before the failure
DbThrows(c, inserted) ==
  LET kind == storageCalls[c].kind
      op == fallbackOperation(kind, c, fallbackMessages)
  IN /\ storageCalls[c].pc = "db"
     /\ ~database.up
     /\ inserted => kind = "createMessage"
     /\ database' = IF inserted THEN [database EXCEPT !.messages = @ \cup {c}]
                    ELSE database
     /\ resilientStorage' = Caught(resilientStorage)
     /\ fallbackMessages' = op.messages
     /\ storageCalls' = [storageCalls EXCEPT
           ![c].pc = "done", ![c].via = "fallback", ![c].failed = TRUE,
           ![c].result = op.result]
     /\ UNCHANGED <<callVars, requestQueue, now, cacheVars, limiterVars, orchVars>>

\* the reconnection timer fires after 30 s: testDatabaseConnection is called
TimerFires ==
  /\ resilientStorage.timers > 0
  /\ resilientStorage' = [resilientStorage EXCEPT !.timers = @ - 1, !.testing = @ + 1]
  /\ UNCHANGED <<callVars, requestQueue, database, fallbackMessages, storageCalls, now,
                 cacheVars, limiterVars, orchVars>>

\* the test's promise is fulfilled and the then callback runs
TestCompletes ==
  LET isConnected == testDatabaseConnection(database.up)
  IN /\ resilientStorage.testing > 0
     /\ resilientStorage' =
          [resilientStorage EXCEPT
             !.testing = @ - 1,
             !.reconnectionScheduled = FALSE,
             !.usingFallback = IF isConnected THEN FALSE ELSE @,
             !.degraded = IF isConnected THEN FALSE ELSE @]
     /\ UNCHANGED <<callVars, requestQueue, database, fallbackMessages, storageCalls,
                    now, cacheVars, limiterVars, orchVars>>

\* the database becomes unreachable, or reachable again
DbToggles ==
  /\ database' = [database EXCEPT !.up = ~@]
  /\ UNCHANGED <<callVars, requestQueue, resilientStorage, fallbackMessages,
                 storageCalls, now, cacheVars, limiterVars, orchVars>>

NextStorage ==
  \/ \E c \in Calls, kind \in {"createMessage", "getMessages"} : StorageCall(c, kind)
  \/ \E c \in Calls : DbReturns(c)
  \/ \E c \in Calls, inserted \in BOOLEAN : DbThrows(c, inserted)
  \/ TimerFires
  \/ TestCompletes
  \/ DbToggles

\* ------------------------------------------------------------------- Init
InitBase ==
  /\ now = 0
  /\ cache = <<>>
  /\ requests = <<>>
  /\ lastSet = [k \in AllKeys |-> <<>>]
  /\ recency = <<>>
  /\ callLog = [k \in LimiterKeys |-> FreshLog]
  /\ currentModelIndex = 0
  /\ messages = [i \in Identities |-> <<>>]
  /\ rq = [r \in Reqs |-> IdleReq]
  /\ vadResult = <<>>
  /\ imReply = <<>>
  /\ handed = <<>>
  /\ requestQueue = EmptyQueue
  /\ resilientStorage = FreshStorage
  /\ database = [up |-> TRUE, messages |-> {}]
  /\ fallbackMessages = {}
  /\ storageCalls = [c \in Calls |-> IdleCall]

\* no call of the pure functions is under way
NoInputs(skip) ==
  /\ "vad" \in skip \/ vadText = [caps |-> FALSE, tokens |-> <<>>]
  /\ "im" \in skip \/ (imText = <<>> /\ imScore = [valence |-> 0, primaryEmotion |-> "sadness"])
  /\ "hist" \in skip \/ chatMessages = <<>>

\* the library objects on their own: no provider configured, no request
InitLib ==
  /\ InitBase
  /\ NoInputs({})
  /\ modelPriority = <<>>
  /\ keyUsage = <<>>

Init ==
  /\ InitBase
  /\ NoInputs({})
  /\ modelPriority \in Configurations
  /\ keyUsage = [m \in ModelNames(modelPriority) |-> 0]

NextCache ==
  \/ \E t \in Texts, r \in Responses, a \in VadScores : CacheSetOp(t, r, a)
  \/ \E t \in Texts : CacheGetOp(t)
  \/ CacheClearOp
  \/ Tick

SpecCache == InitLib /\ [][NextCache]_vars

NextLimiter ==
  \/ \E i \in Identities : RateLimitCall(UserKey(i))
  \/ \E i \in Identities : RateLimitReset(UserKey(i))
  \/ Tick

SpecLimiter == InitLib /\ [][NextLimiter]_vars

\* similarity thresholds: 0.8 as generateOptimizedResponse passes it, 0.7 the default
Thresholds == { <<4, 5>>, <<7, 10>> }

\* the cache filled and read with the longer texts
NextSimilar ==
  \/ \E t \in SimTexts : CacheSetOp(t, "r1", "v1")
  \/ \E t \in SimTexts : CacheGetOp(t)
  \/ \E t \in SimTexts, th \in Thresholds : CacheFindSimilarOp(t, th)
  \/ Tick

SpecSimilar == InitLib /\ [][NextSimilar]_vars

\* analyzeTextWithVAD on its own, applied to one text
InitVad ==
  /\ InitBase
  /\ modelPriority = <<>>
  /\ keyUsage = <<>>
  /\ NoInputs({"vad"})
  /\ vadText \in VadTexts

SpecVad == InitVad /\ [][Analyze]_vars

\* generateImitationResponse on its own, applied to one text and score
InitImitation ==
  /\ InitBase
  /\ modelPriority = <<>>
  /\ keyUsage = <<>>
  /\ NoInputs({"im"})
  /\ imText \in UserTexts
  /\ imScore \in AffectScores

SpecImitation == InitImitation /\ [][\E draw \in Draws : Imitate(draw)]_vars

\* the history of Strategy 1 on its own, built from one stored chat
MaxHistory == 7

InitHistory ==
  /\ InitBase
  /\ modelPriority = <<>>
  /\ keyUsage = <<>>
  /\ NoInputs({"hist"})
  /\ chatMessages \in UNION { [1..n -> {"user", "assistant"}] : n \in 0..MaxHistory }

SpecHistory == InitHistory /\ [][StartChat]_vars

\* the request queue on its own, with callers that enqueue and clear
SpecQueue == InitLib /\ [][NextQueue]_vars

\* the event loop runs every continuation that is ready and fires every
\* timer; the callbacks are taken to settle
SpecQueueLive ==
  /\ SpecQueue
  /\ \A j \in Jobs : WF_vars(\E ok \in BOOLEAN : CallbackSettles(j, ok))
  /\ \A l \in Jobs : WF_vars(Resume(l))
  /\ \A l \in Jobs : WF_vars(DelayElapses(l))

\* the storage on its own, with callers and a database that comes and goes
SpecStorage == InitLib /\ [][NextStorage]_vars

\* the event loop fires every timer and runs every continuation
SpecStorageLive ==
  /\ SpecStorage
  /\ WF_vars(TimerFires)
  /\ WF_vars(TestCompletes)

\* no request is being handled
Quiet == \A r \in Reqs : rq[r].pc \in {"idle", "done"}

\* requests arrive at any time and their handlers interleave at every await;
\* a tick is the scale of the rate window and of the TTL (minutes), so the
\* clock advances between requests and not while one is being handled
Next ==
  \/ \E r \in Reqs, e \in Endpoints, u \in Identities, t \in OrchTexts :
       Receive(r, e, u, t)
  \/ \E r \in Reqs : Step(r)
  \/ Quiet /\ Tick

Spec == Init /\ [][Next]_vars

\* one request at a time: a request arrives when no other is being handled
NextSeq ==
  \/ \E r \in Reqs, e \in Endpoints, u \in Identities, t \in OrchTexts :
       Quiet /\ Receive(r, e, u, t)
  \/ \E r \in Reqs : Step(r)
  \/ Quiet /\ Tick

SpecSeq == Init /\ [][NextSeq]_vars

\* ================================================================== claims

\* the request ran out of providers: "All API models exhausted" was thrown
GaveUp(r) ==
  \/ rq[r].pc = "caught"
  \/ rq[r].served = "fallback"
  \/ rq[r].outcome = "error500"

C2_OnlyRateLimitedVisible ==
  \A r \in Reqs :
    rq[r].pc = "done" =>
      \/ rq[r].outcome = "RateLimited"
      \/ rq[r].outcome = "ok" /\ rq[r].reply # ""

\* C3: whenever a request that was not rate limited ends with a reply that a
\* provider or, after all providers are exhausted, the fallback generator
\* produced, that reply has been written to the cache under the request's
\* input text.
C3_FinalReplyCached ==
  \A r \in Reqs :
    (/\ rq[r].pc = "done"
     /\ rq[r].outcome = "ok"
     /\ rq[r].served \in {"provider", "fallback"})
      => rq[r].writes > 0

C5_RejectedNotRecorded ==
  \A key \in LimiterKeys :
    isRateLimited(requests, key, now).ret = TRUE
      => isRateLimited(requests, key, now).requests = requests

\* an identity was rejected at least once and is still over its budget
C5_Witness ==
  \E key \in LimiterKeys :
    /\ callLog[key].count = MaxRequests + 1
    /\ Has(requests, key) /\ Len(requests[key]) = MaxRequests
    /\ isRateLimited(requests, key, now).ret = TRUE

\* C6: while the entry written by the last set of a key has not been removed
\* (evicted, purged or cleared), get returns that set's response before the TTL has elapsed
\* since the set and returns nothing once it has.
C6_GetUntilTtl ==
  \A t \in Texts :
    LET k == hashInput(t)
        got == CacheGet(cache, t, now).entry
    IN lastSet[k] # <<>> =>
         IF now - lastSet[k][1].at < Ttl
         THEN got # <<>> /\ got[1].response = lastSet[k][1].response
         ELSE got = <<>>

\* one key is still stored although its TTL has elapsed, another is live
C6_Witness ==
  \E k1, k2 \in AllKeys :
    /\ lastSet[k1] # <<>>
    /\ k1 \in KeySet(cache) /\ now - lastSet[k1][1].at >= Ttl
    /\ lastSet[k2] # <<>>
    /\ now - lastSet[k2][1].at < Ttl

\* C7: when set inserts a new key into a cache holding capacity unexpired
\* entries, the one entry it evicts is the least recently inserted-or-read
\* one, and it is not the entry being inserted.
C7_EvictsLeastRecentlyAccessed ==
  \A t \in Texts :
    (/\ hashInput(t) \notin KeySet(cleanup(cache, now))
     /\ Len(cleanup(cache, now)) >= Capacity)
      => /\ SetEvicted(cache, t, now) = { LruKey(recency, cache, now)[1] }
         /\ hashInput(t) \in KeySet(CacheSet(cache, t, "r1", "v1", now))

\* C8: the cache never holds more entries than its capacity.
C8_SizeWithinCapacity == Len(cache) <= Capacity

\* the cache is full of unexpired entries, so that the next insert must evict
C8_Witness ==
  /\ Len(cleanup(cache, now)) = Capacity
  /\ \E t \in Texts : SetEvicted(cache, t, now) # {}

\* C9: when the same identity sends the same input text twice in a row within
\* the TTL and a provider is configured, the first request calls the provider
\* and the second is served from the cache with no provider call.
C9_SecondServedFromCache ==
  \A r, q \in Reqs :
    (/\ q = r + 1
     /\ rq[r].pc = "done" /\ rq[r].outcome = "ok"
     /\ rq[q].pc = "done" /\ rq[q].outcome = "ok"
     /\ rq[r].user = rq[q].user
     /\ rq[r].text = rq[q].text
     /\ rq[q].at - rq[r].at < Ttl
     /\ rq[r].served \notin {"cache-exact", "cache-similar"}
     /\ Len(modelPriority) >= 1)
      => /\ rq[r].calls >= 1
         /\ rq[q].calls = 0
         /\ rq[q].served = "cache-exact"

\* C10: a request rejected as RateLimited changes nothing: it writes no cache
\* entry, stores no message, makes no provider call, moves neither the
\* rotation index nor a usage counter, and it ends there.
C10_RateLimitedChangesNothing ==
  \A r \in Reqs :
    rq[r].outcome = "RateLimited" =>
      /\ rq[r].pc = "done"
      /\ rq[r].writes = 0
      /\ rq[r].stored = 0
      /\ rq[r].calls = 0
      /\ rq[r].selections = 0
      /\ rq[r].reply = ""

\* one request of an identity went through, wrote the cache and stored its
\* messages, and the next one of the same identity was rejected
C10_Witness ==
  \E r, q \in Reqs :
    /\ rq[q].outcome = "RateLimited"
    /\ rq[r].outcome = "ok" /\ rq[r].writes = 1 /\ rq[r].stored = 2
    /\ rq[r].endpoint = rq[q].endpoint
    /\ rq[r].user = rq[q].user

\* C11: with no provider configured, a request that is neither rate limited
\* nor served from the cache gets a non-empty reply produced by the fallback
\* generator, not one fixed string for all inputs.
C11_NoProviderUsesFallback ==
  \A r \in Reqs :
    (/\ rq[r].pc = "done"
     /\ rq[r].outcome = "ok"
     /\ Len(modelPriority) = 0
     /\ rq[r].served \notin {"cache-exact", "cache-similar"})
      => /\ rq[r].served = "fallback"
         /\ rq[r].reply # ""
         /\ rq[r].reply # StaticText

\* C12: every orchestration call starts its provider attempts from the first
\* provider of the priority list, whatever happened in earlier calls.
C12_StartsFromHighestPriority ==
  \A r \in Reqs :
    rq[r].attempts # <<>> => rq[r].attempts[1] = modelPriority[1]

\* C13: with requests in flight at once, under every interleaving at await
\* points, each request whose providers all fail attempted each of the N
\* providers exactly once: none skipped or tried twice because another
\* request rotated in between.
C13_NoRotationRace ==
  \A r \in Reqs :
    rq[r].pc = "caught" =>
      /\ \A m \in ModelNames(modelPriority) :
           Cardinality({ i \in 1..Len(rq[r].attempts) : rq[r].attempts[i] = m }) = 1
      /\ \A i \in 1..Len(rq[r].attempts) : rq[r].attempts[i] \in ModelNames(modelPriority)

InUnitRange(x) == -x[2] <= x[1] /\ x[1] <= x[2]

\* C15: for every text, the empty one included, analyzeTextWithVAD returns
\* valence, arousal and dominance within [-1, 1] and a confidence within
\* [0, 0.95]
C15_ScoreWithinRanges ==
  vadResult # <<>> =>
    LET s == vadResult[1]
    IN /\ InUnitRange(s.valence) /\ InUnitRange(s.arousal) /\ InUnitRange(s.dominance)
       /\ "confidence" \in DOMAIN s
       /\ 0 <= s.confidence[1]
       /\ 100 * s.confidence[1] <= 95 * s.confidence[2]

\* C16: "I'm sick of everything today" scores a valence below -0.3 and a
\* primary emotion of sadness or frustration
C16_ScenarioANegative ==
  (vadText = ScenarioA /\ vadResult # <<>>) =>
    /\ Below(vadResult[1].valence[1], vadResult[1].valence[2], -3)
    /\ vadResult[1].primaryEmotion \in {"sadness", "frustration"}

\* C20: a matched pattern has its valence inverted and dampened when a
\* negator stands before it in its own clause (a clause ends at '.', '!' or
\* '?'), and keeps its valence when no negator does, whatever other clauses
\* of the text hold
C20_NegationWithinClause ==
  vadResult # <<>> =>
    LET tokens == vadText.tokens
        EndsClause(i) ==
          \E j \in 1..Len(tokens[i].tail) : tokens[i].tail[j] \in {".", "!", "?"}
        NegatorBefore(i) ==
          \E j \in 1..(i - 1) :
            tokens[j].word \in negations /\ \A k \in j..(i - 1) : ~EndsClause(k)
        Occurrences(p) ==
          { i \in 1..Len(tokens) :
              \/ tokens[i].word \in p.words
              \/ p.run # <<>> /\ HasRun(tokens[i].tail, p.run[1], p.run[2]) }
    IN \A n \in 1..Len(emotionalPatterns) :
         LET p == emotionalPatterns[n]
             used == valenceAdjustment(p, negationActive(tokens))
         IN (Occurrences(p) # {} /\ p.pattern # "not") =>
              /\ (\A i \in Occurrences(p) : ~NegatorBefore(i)) => used = 100 * p.valence
              /\ (\A i \in Occurrences(p) : NegatorBefore(i)) => used # 100 * p.valence

\* C17: generateImitationResponse returns a non-empty string, and the string
\* it returns after style mirroring holds no pet name of the denylist as a
\* word unless the input text holds one as a word
C17_NoPetNameUnlessUserUsedOne ==
  imReply # <<>> =>
    LET terms == { petNames[k] : k \in 1..Len(petNames) }
        reply == imReply[1]
    IN /\ reply # <<>>
       /\ (\A i \in 1..Len(imText) : imText[i] \notin terms)
            => \A j \in 1..Len(reply) : reply[j] \notin terms

\* C18: within one pass of the rotation loop the strategies are called in the
\* order history-aware chat, enriched prompt, bare input (the pass starts at
\* the enriched prompt when there is no valid history); a call that succeeds
\* is the request's last call; a call to another pass follows only a failed
\* bare-input call; and a request makes at most 3 calls to any one provider
\* and at most 3*N calls in all.
C18_TiersInOrderAndBounded ==
  \A r \in Reqs :
    LET log == rq[r].tierLog
        Rank(t) == CASE t = "tier1" -> 1 [] t = "tier2" -> 2 [] OTHER -> 3
        StartsPass(i) == i = 1 \/ log[i].attempt # log[i - 1].attempt
    IN /\ \A i \in 1..Len(log) :
            StartsPass(i) => log[i].tier = FirstTier(rq[r].history)
       /\ \A i \in 1..(Len(log) - 1) :
            /\ log[i].outcome = "failed"
            /\ \/ /\ log[i + 1].attempt = log[i].attempt
                  /\ log[i + 1].model = log[i].model
                  /\ Rank(log[i + 1].tier) = Rank(log[i].tier) + 1
               \/ /\ log[i + 1].attempt = log[i].attempt + 1
                  /\ log[i].tier = "tier3"
       /\ rq[r].served = "provider" =>
            /\ log # <<>>
            /\ log[Len(log)].outcome = "ok"
       /\ \A m \in ModelNames(modelPriority) :
            Cardinality({ i \in 1..Len(log) : log[i].model = m }) <= 3
       /\ Len(log) <= 3 * Len(modelPriority)

\* C21: every orchestration call looks the input up in the cache first, by
\* exact match and then by similarity of at least 0.8, before a provider is
\* selected; on a hit of either lookup the cached reply is returned, and the
\* request makes no provider call and moves neither the rotation index nor a
\* usage counter; only when both miss does it go on to the providers.
C21_CacheBeforeProviders ==
  /\ [](\A r \in Reqs :
          rq[r].served \in {"cache-exact", "cache-similar"} =>
            /\ rq[r].calls = 0
            /\ rq[r].selections = 0
            /\ rq[r].tierLog = <<>>)
  /\ [][\A r \in Reqs :
          (rq[r].pc = "lookup" /\ rq'[r].pc # "lookup") =>
            LET key == NormalizeText(Trim(rq[r].text))
                live == { i \in 1..Len(cache) : now - cache[i].timestamp < Ttl }
                exact == { i \in live : cache[i].key = key }
                similar ==
                  { i \in live :
                      FracGeq(Similarity(SplitWords(key), SplitWords(cache[i].key)),
                              <<4, 5>>) }
            IN /\ keyUsage' = keyUsage
               /\ currentModelIndex' = currentModelIndex
               /\ rq'[r].selections = 0
               /\ rq'[r].calls = 0
               /\ IF exact # {}
                  THEN /\ rq'[r].pc = "saveReply"
                       /\ rq'[r].served = "cache-exact"
                       /\ \E i \in exact : rq'[r].reply = cache[i].response
                  ELSE IF similar # {}
                       THEN /\ rq'[r].pc = "saveReply"
                            /\ rq'[r].served = "cache-similar"
                            /\ \E i \in similar : rq'[r].reply = cache[i].response
                       ELSE /\ rq'[r].pc = "history"
                            /\ rq'[r].served = "none"]_vars

\* one request was answered by a provider after both lookups missed, and a
\* later one with other wording of the same words by the similarity lookup
C21_Witness ==
  \E r, q \in Reqs :
    /\ rq[r].pc = "done" /\ rq[r].served = "provider" /\ rq[r].calls > 0
    /\ rq[q].pc = "done" /\ rq[q].served = "cache-similar"
    /\ rq[q].reply = rq[r].reply

\* C22: each provider selection (getCurrentModel, and the one made inside
\* rotateToNextModel) returns the provider at the rotation index as it is
\* then, adds exactly one to that provider's usage counter and leaves the
\* other counters alone, whether or not the call succeeds later;
\* rotateToNextModel first moves the index by one position, from the last
\* provider back to the first; nothing else moves the index or a counter.
C22_SelectionCountsOnce ==
  [][/\ \A r \in Reqs :
          rq'[r].selections = rq[r].selections + 1 =>
            LET N == Len(modelPriority)
                rotates == rq[r].selections > 0
                index == IF ~rotates THEN currentModelIndex
                         ELSE IF currentModelIndex = N - 1 THEN 0
                         ELSE currentModelIndex + 1
            IN /\ currentModelIndex' = index
               /\ rq'[r].currentModel = modelPriority[index + 1]
               /\ DOMAIN keyUsage' = DOMAIN keyUsage
               /\ \A m \in DOMAIN keyUsage :
                    keyUsage'[m] = IF m = modelPriority[index + 1]
                                   THEN keyUsage[m] + 1 ELSE keyUsage[m]
     /\ (\A r \in Reqs : rq'[r].selections = rq[r].selections) =>
           /\ keyUsage' = keyUsage
           /\ currentModelIndex' = currentModelIndex]_vars

\* a request rotated from the last provider back to the first, and the first
\* provider has been selected by both requests
C22_Witness ==
  \E r \in Reqs :
    /\ Len(modelPriority) = 2
    /\ rq[r].attempts = <<modelPriority[2], modelPriority[1]>>
    /\ currentModelIndex = 0
    /\ keyUsage[modelPriority[1]] = 2

\* C23: set on a key that is already present replaces only that key's entry:
\* every other unexpired entry is still there unchanged afterwards and the
\* number of unexpired entries is the same, also when the cache is full.
C23_OverwriteKeepsOthers ==
  \A t \in Texts :
    LET live == cleanup(cache, now)
        after == CacheSet(cache, t, "r1", "v1", now)
    IN hashInput(t) \in KeySet(live) =>
         /\ Len(after) = Len(live)
         /\ \A i \in 1..Len(live) :
              live[i].key # hashInput(t) =>
                \E j \in 1..Len(after) : after[j] = live[i]

C25_OneAtATimeInOrder ==
  LET s == requestQueue
      active == { l \in Jobs : s.loops[l].pc # "off" }
  IN /\ Cardinality(active) <= 1
     /\ s.isProcessing <=> active # {}
     /\ \A i \in 1..(Len(s.startOrder) - 1) :
          /\ s.startOrder[i] < s.startOrder[i + 1]
          /\ s.jobs[s.startOrder[i]].callback \in {"returned", "threw"}
          /\ s.jobs[s.startOrder[i]].promise \in {"resolved", "rejected"}
     /\ \A i \in 1..Len(s.queue) : \A k \in 1..Len(s.startOrder) :
          s.startOrder[k] < s.queue[i]
     /\ \A i \in 1..(Len(s.queue) - 1) : s.queue[i] < s.queue[i + 1]

\* the first callback failed, the second, enqueued while the first ran, is
\* running, and a third was enqueued meanwhile
C25_Witness ==
  /\ requestQueue.startOrder = <<1, 2>>
  /\ requestQueue.jobs[1].callback = "threw"
  /\ requestQueue.jobs[1].promise = "rejected"
  /\ requestQueue.jobs[2].callback = "running"
  /\ requestQueue.queue = <<3>>

\* C26: every promise enqueue returned is settled in the end, resolved when
\* its callback returned and rejected when it threw, whatever enqueue and
\* clear calls are made meanwhile, provided the callbacks settle.
C26_EveryPromiseSettles ==
  /\ [](\A j \in Jobs :
          /\ requestQueue.jobs[j].promise = "resolved"
                => requestQueue.jobs[j].callback = "returned"
          /\ requestQueue.jobs[j].promise = "rejected"
                => requestQueue.jobs[j].callback = "threw")
  /\ \A j \in Jobs :
       (requestQueue.jobs[j].promise = "pending")
         ~> (requestQueue.jobs[j].promise \in {"resolved", "rejected"})

\* C27: a storage call whose database operation fails or times out returns
\* what the in-memory fallback operation returns, not an error; and from then
\* until a reconnection test has succeeded every storage call that starts
\* runs the fallback operation and leaves the database alone.
C27_FailureSwitchesToFallback ==
  /\ [](\A c \in Calls :
          storageCalls[c].failed =>
            /\ storageCalls[c].pc = "done"
            /\ storageCalls[c].via = "fallback"
            /\ storageCalls[c].result \subseteq fallbackMessages
            /\ storageCalls[c].kind = "createMessage" => storageCalls[c].result = {c})
  /\ [][\A c \in Calls :
          (/\ storageCalls[c].pc = "idle"
           /\ storageCalls'[c].pc # "idle"
           /\ resilientStorage.degraded)
            => /\ storageCalls'[c].pc = "done"
               /\ storageCalls'[c].via = "fallback"
               /\ storageCalls'[c].result \subseteq fallbackMessages'
               /\ database' = database]_vars

\* a database operation failed, the database is reachable again, and a call
\* made after the failure was answered by the fallback
C27_Witness ==
  \E c, d \in Calls :
    /\ c < d
    /\ storageCalls[c].failed
    /\ storageCalls[d].pc = "done" /\ ~storageCalls[d].failed
    /\ storageCalls[d].via = "fallback"
    /\ storageCalls[d].mustSee # {}
    /\ database.up
    /\ resilientStorage.degraded

\* C28: once the storage has switched to the fallback, if the database is
\* reachable again and stays reachable, the storage goes back to the
\* database in the end; and never is more than one reconnection timer
\* pending.
C28_ResumesDatabase ==
  /\ [](resilientStorage.timers <= 1)
  /\ []((resilientStorage.usingFallback /\ []database.up)
          => <>(~resilientStorage.usingFallback))

\* C29: the result of a getMessages call holds every message whose
\* createMessage call had returned when the getMessages call was made, also
\* when the storage switched between database and fallback in between.
C29_CreatedMessagesAreRead ==
  \A c \in Calls :
    (storageCalls[c].kind = "getMessages" /\ storageCalls[c].pc = "done")
      => storageCalls[c].mustSee \subseteq storageCalls[c].result

\* C30: a reply that a provider generated from one identity's conversation
\* history or preferences is never returned to a request of another identity:
\* every request that ends with a provider-generated reply, fresh or taken
\* from the cache, has the reply generated for its own identity.
C30_NoReplyOfAnotherIdentity ==
  \A r \in Reqs :
    (/\ rq[r].pc = "done"
     /\ rq[r].outcome = "ok"
     /\ rq[r].served \in {"provider", "cache-exact", "cache-similar"})
      => rq[r].reply = ProviderReply(rq[r].user)

\* C19: the history handed to the provider in the history-aware tier starts
\* with a user turn and strictly alternates user and model turns, also when
\* it was cut to the most recent turns
C19_HistoryAlternatesFromUser ==
  handed # <<>> =>
    LET history == handed[1]
    IN /\ history[1] = "user"
       /\ \A i \in 1..Len(history) : history[i] \in {"user", "model"}
       /\ \A i \in 1..(Len(history) - 1) : history[i] # history[i + 1]

============================================================================
